---- MODULE Spec2Model ----
(***************************************************************************)
(* Gallerust (src/src/main.rs): an image viewer.  AppState holds the       *)
(* sorted image list, the current index, the zoom and the decoded image;   *)
(* main() runs the winit event loop; draw_image composites the decoded     *)
(* image into the pixel frame.                                             *)
(*                                                                         *)
(* Floating point: every f32 of the program is modelled bit-exactly as     *)
(*   [k |-> "fin", m |-> mantissa, e |-> exponent]   value m * 2^e,        *)
(*   [k |-> "inf", ...] and [k |-> "nan", ...],                            *)
(* with m = 0 (zero) or 2^23 <= |m| < 2^24, and IEEE-754 round-to-nearest, *)
(* ties-to-even results.  m < 0 only as the result of a subtraction.       *)
(***************************************************************************)
EXTENDS Integers, Sequences, FiniteSets, TLC

(***************************************************************************)
(* f32 arithmetic                                                          *)
(***************************************************************************)
Pow2(n) == 2 ^ n

F32Zero == [k |-> "fin", m |-> 0, e |-> 0]
F32Inf == [k |-> "inf", m |-> 0, e |-> 0]
F32NaN == [k |-> "nan", m |-> 0, e |-> 0]

\* The number of binary digits of n > 0.
RECURSIVE BitLen(_)
BitLen(n) == IF n = 0 THEN 0 ELSE 1 + BitLen(n \div 2)

\* q (an integer, the truncated significand) with remainder r below it, r
\* compared against half: round to nearest, ties to even.
RoundNearestEven(q, twice_r, unit) ==
    IF twice_r > unit \/ (twice_r = unit /\ q % 2 = 1) THEN q + 1 ELSE q

\* The f32 nearest to n * 2^e, n >= 0 an exact integer below 2^31; `sticky`
\* says that a nonzero part below n's last bit was cut off.
F32Round(n, e, sticky) ==
    IF n = 0 THEN F32Zero
    ELSE LET bits == BitLen(n) IN
         IF bits <= 24
         THEN [k |-> "fin", m |-> n * Pow2(24 - bits), e |-> e - (24 - bits)]
         ELSE LET s == bits - 24
                  q == n \div Pow2(s)
                  r == n % Pow2(s)
                  up == RoundNearestEven(q, 2 * r + (IF sticky THEN 1 ELSE 0), Pow2(s))
              IN IF up = Pow2(24)
                 THEN [k |-> "fin", m |-> Pow2(23), e |-> e + s + 1]
                 ELSE [k |-> "fin", m |-> up, e |-> e + s]

F32Neg(a) == [a EXCEPT !.m = 0 - a.m]

\* `n as f32` for a u32 below 2^24 (exact).
F32FromU32(n) == F32Round(n, 0, FALSE)

\* a + b for finite a, b (b may be negative); the exponents of the operands
\* the program adds differ by less than 7, so the aligned sum fits.
F32Add(a, b) ==
    IF a.m = 0 THEN b
    ELSE IF b.m = 0 THEN a
    ELSE LET e0 == IF a.e < b.e THEN a.e ELSE b.e
             sum == a.m * Pow2(a.e - e0) + b.m * Pow2(b.e - e0)
         IN IF sum < 0 THEN F32Neg(F32Round(0 - sum, e0, FALSE))
            ELSE F32Round(sum, e0, FALSE)

F32Sub(a, b) == F32Add(a, F32Neg(b))

\* a < b, false when either is NaN.
F32Lt(a, b) ==
    IF a.k = "nan" \/ b.k = "nan" THEN FALSE
    ELSE IF a.k = "inf" THEN FALSE
    ELSE IF b.k = "inf" THEN TRUE
    ELSE IF a.m <= 0 /\ b.m > 0 THEN a.m < b.m
    ELSE IF a.m < 0 /\ b.m = 0 THEN TRUE
    ELSE IF a.m >= 0 /\ b.m <= 0 THEN FALSE
    ELSE IF a.m = 0 THEN b.m > 0
    ELSE IF a.m > 0 THEN a.e < b.e \/ (a.e = b.e /\ a.m < b.m)
    ELSE a.e > b.e \/ (a.e = b.e /\ a.m < b.m)

\* f32::min and f32::max: a NaN operand yields the other operand.
F32Min(a, b) ==
    IF a.k = "nan" THEN b ELSE IF b.k = "nan" THEN a
    ELSE IF F32Lt(b, a) THEN b ELSE a

F32Max(a, b) ==
    IF a.k = "nan" THEN b ELSE IF b.k = "nan" THEN a
    ELSE IF F32Lt(a, b) THEN b ELSE a

\* a * b for non-negative a, b: the 48-bit product of the significands is
\* formed from 12-bit limbs and rounded to 24 bits.
F32Mul(a, b) ==
    IF a.k = "nan" \/ b.k = "nan" THEN F32NaN
    ELSE IF a.k = "inf" \/ b.k = "inf"
         THEN (IF (a.k = "fin" /\ a.m = 0) \/ (b.k = "fin" /\ b.m = 0)
               THEN F32NaN ELSE F32Inf)
    ELSE IF a.m = 0 \/ b.m = 0 THEN F32Zero
    ELSE LET a1 == a.m \div 4096
             a0 == a.m % 4096
             b1 == b.m \div 4096
             b0 == b.m % 4096
             mid == a1 * b0 + a0 * b1
             low == (mid % 4096) * 4096 + a0 * b0
             H == a1 * b1 + mid \div 4096 + low \div Pow2(24)
             L == low % Pow2(24)
             e == a.e + b.e
         IN IF H >= Pow2(23)
            THEN LET up == RoundNearestEven(H, 2 * L, Pow2(24))
                 IN IF up = Pow2(24)
                    THEN [k |-> "fin", m |-> Pow2(23), e |-> e + 25]
                    ELSE [k |-> "fin", m |-> up, e |-> e + 24]
            ELSE LET q == 2 * H + L \div Pow2(23)
                     up == RoundNearestEven(q, 2 * (L % Pow2(23)), Pow2(23))
                 IN IF up = Pow2(24)
                    THEN [k |-> "fin", m |-> Pow2(23), e |-> e + 24]
                    ELSE [k |-> "fin", m |-> up, e |-> e + 23]

\* Schoolbook division: n more quotient bits of (q + r/d).
RECURSIVE LongDiv(_, _, _, _)
LongDiv(q, r, d, n) ==
    IF n = 0 THEN <<q, r>>
    ELSE IF 2 * r >= d THEN LongDiv(2 * q + 1, 2 * r - d, d, n - 1)
         ELSE LongDiv(2 * q, 2 * r, d, n - 1)

\* a / b for non-negative a, b.
F32Div(a, b) ==
    IF a.k = "nan" \/ b.k = "nan" THEN F32NaN
    ELSE IF a.k = "inf" THEN (IF b.k = "inf" THEN F32NaN ELSE F32Inf)
    ELSE IF b.k = "inf" THEN F32Zero
    ELSE IF b.m = 0 THEN (IF a.m = 0 THEN F32NaN ELSE F32Inf)
    ELSE IF a.m = 0 THEN F32Zero
    ELSE LET n == IF a.m >= b.m THEN 23 ELSE 24
             qr == LongDiv(a.m \div b.m, a.m % b.m, b.m, n)
             up == RoundNearestEven(qr[1], 2 * qr[2], b.m)
             e == a.e - b.e - n
         IN IF up = Pow2(24)
            THEN [k |-> "fin", m |-> Pow2(23), e |-> e + 1]
            ELSE [k |-> "fin", m |-> up, e |-> e]

\* What a saturating cast to u32 gives at the top of the range.  The model's
\* integers end at 2^31 - 1, so that value stands for u32::MAX; no cast within
\* the model's bounds saturates.
U32Saturated == 2147483647

\* `a as u32`: truncation toward zero, NaN to 0, saturating.
F32ToU32(a) ==
    IF a.k = "nan" THEN 0
    ELSE IF a.k = "inf" THEN U32Saturated
    ELSE IF a.m <= 0 THEN 0
    ELSE IF a.e >= 0 THEN (IF a.e > 6 THEN U32Saturated ELSE a.m * Pow2(a.e))
    ELSE IF a.e < -24 THEN 0
    ELSE a.m \div Pow2(0 - a.e)

(***************************************************************************)
(* Bounds                                                                  *)
(***************************************************************************)
\* Files of the folder universe (file p is named "<p>.<ExtOf(p)>").
MaxFiles == 4
\* Largest window / pixel-buffer height and width of the event-loop model.
MaxDim == 1
MaxWidth == 2
\* Largest image and frame width and height handed to draw_image directly.
MaxImg == 2
MaxFrame == 3

(***************************************************************************)
(* Files, extensions, decoding                                             *)
(***************************************************************************)
Universe == 1..MaxFiles

Exts == <<"txt", "png", "JPG", "gif", "webp">>
ExtOf(p) == Exts[((p - 1) % Len(Exts)) + 1]

\* str::to_lowercase on the extensions that occur.
ToLowercase(ext) ==
    CASE ext = "JPG" -> "jpg"
      [] ext = "PNG" -> "png"
      [] OTHER -> ext

IsImage(p) ==
    ToLowercase(ExtOf(p)) \in {"jpg", "jpeg", "png", "gif", "webp", "bmp"}

\* PathBuf's Ord on the paths of one folder: the names "1.png", "2.JPG", ...
\* compare as their leading digit.
PathLess(p, q) == p < q

NoPanic == "none"

\* The RGBA bytes of a w x h image whose pixel k (row-major, from 0) is
\* (tag, k, 128, 255).
ImageData(tag, w, h) ==
    [i \in 1..(4 * w * h) |->
        LET c == (i - 1) % 4
        IN IF c = 0 THEN tag ELSE IF c = 1 THEN (i - 1) \div 4
           ELSE IF c = 2 THEN 128 ELSE 255]

\* What image::open(path).to_rgba8() yields for file p when it decodes.
DecodedWidth(p) == 1 + (p % 2)
DecodedHeight(p) == 1 + ((p \div 2) % 2)

\* load_image: the decoded (data, w, h), or the panic of expect().
load_image(p, readable) ==
    IF readable
    THEN [panic |-> NoPanic, data |-> ImageData(p, DecodedWidth(p), DecodedHeight(p)),
          w |-> DecodedWidth(p), h |-> DecodedHeight(p)]
    ELSE [panic |-> "Failed to open image", data |-> <<>>, w |-> 0, h |-> 0]

(***************************************************************************)
(* AppState and its methods.  A method returns [st, panic]: the struct as  *)
(* the method leaves it, and the panic message when it panicked.           *)
(***************************************************************************)
One == F32FromU32(1)
ZoomStep == F32Div(F32FromU32(1), F32FromU32(10))     \* the literal 0.1
ZoomMin == ZoomStep
ZoomMax == F32FromU32(5)

\* usize::MAX, the width scaled down to 16 bits.
UsizeMax == 65535

\* Vec::sort on the filtered listing (insertion into a sorted sequence).
RECURSIVE Insert(_, _)
Insert(sorted, p) ==
    IF sorted = <<>> THEN <<p>>
    ELSE IF PathLess(p, Head(sorted)) THEN <<p>> \o sorted
    ELSE <<Head(sorted)>> \o Insert(Tail(sorted), p)

RECURSIVE Sort(_)
Sort(list) == IF list = <<>> THEN <<>> ELSE Insert(Sort(Tail(list)), Head(list))

\* read_dir(..).filter_map(..).collect(): the entries with an image extension.
FilterImages(list) == SelectSeq(list, IsImage)

\* Faulty variant: the picked file is ignored and the first image is taken.
Position_First(images, file) == 0

\* images.iter().position(|p| p == &file).unwrap_or(0), 0-based.
Position(images, file) ==
    IF \E i \in 1..Len(images) : images[i] = file
    THEN (CHOOSE i \in 1..Len(images) :
             images[i] = file /\ \A j \in 1..(i - 1) : images[j] # file) - 1
    ELSE 0

Unset ==
    [images |-> <<>>, current_index |-> 0, zoom |-> One,
     img_data |-> <<>>, img_width |-> 0, img_height |-> 0]

\* Faulty variant: the is_empty() check is missing, and images[current_index] panics.
new_NoEmptyCheck(picked, dirOk, list, readable) ==
    IF picked = <<>> \/ ~dirOk
    THEN [some |-> FALSE, st |-> Unset, panic |-> NoPanic]
    ELSE LET imgs == Sort(FilterImages(list)) IN
         IF imgs = <<>>
         THEN [some |-> FALSE, st |-> Unset, panic |-> "index out of bounds"]
         ELSE LET idx == Position(imgs, picked[1])
                  ld == load_image(imgs[idx + 1], readable)
              IN IF ld.panic # NoPanic
                 THEN [some |-> FALSE, st |-> Unset, panic |-> ld.panic]
                 ELSE [some |-> TRUE, panic |-> NoPanic,
                       st |-> [images |-> imgs, current_index |-> idx, zoom |-> One,
                               img_data |-> ld.data, img_width |-> ld.w,
                               img_height |-> ld.h]]

\* AppState::new.  some = FALSE is the None result.
\* `picked` is pick_file()'s Option: <<>> or <<file>>.
new(picked, dirOk, list, readable) ==
    IF picked = <<>> \/ ~dirOk
    THEN [some |-> FALSE, st |-> Unset, panic |-> NoPanic]
    ELSE LET imgs == Sort(FilterImages(list)) IN
         IF imgs = <<>>
         THEN [some |-> FALSE, st |-> Unset, panic |-> NoPanic]
         ELSE LET idx == Position(imgs, picked[1])
                  ld == load_image(imgs[idx + 1], readable)
              IN IF ld.panic # NoPanic
                 THEN [some |-> FALSE, st |-> Unset, panic |-> ld.panic]
                 ELSE [some |-> TRUE, panic |-> NoPanic,
                       st |-> [images |-> imgs, current_index |-> idx, zoom |-> One,
                               img_data |-> ld.data, img_width |-> ld.w,
                               img_height |-> ld.h]]

\* Faulty variant: the decoded image is not replaced.
load_current_Stale(st, readable) ==
    IF st.current_index >= Len(st.images)
    THEN [st |-> st, panic |-> "index out of bounds"]
    ELSE [st |-> st, panic |-> NoPanic]

load_current(st, readable) ==
    IF st.current_index >= Len(st.images)
    THEN [st |-> st, panic |-> "index out of bounds"]
    ELSE LET ld == load_image(st.images[st.current_index + 1], readable) IN
         IF ld.panic # NoPanic
         THEN [st |-> st, panic |-> ld.panic]
         ELSE [st |-> [st EXCEPT !.img_data = ld.data, !.img_width = ld.w,
                                 !.img_height = ld.h],
               panic |-> NoPanic]

\* Faulty variant: the index is advanced without the wrap-around.
go_next_NoWrap(st, readable) ==
    LET moved == [st EXCEPT !.current_index = st.current_index + 1]
        ld == load_current(moved, readable)
    IN IF ld.panic # NoPanic THEN ld
       ELSE [st |-> [ld.st EXCEPT !.zoom = One], panic |-> NoPanic]

\* Faulty variant: the zoom is not reset.
go_next_KeepZoom(st, readable) ==
    LET moved == [st EXCEPT !.current_index =
                               (st.current_index + 1) % Len(st.images)]
    IN load_current(moved, readable)

go_next(st, readable) ==
    IF Len(st.images) = 0
    THEN [st |-> st, panic |-> "attempt to calculate the remainder with a divisor of zero"]
    ELSE LET moved == [st EXCEPT !.current_index =
                                    (st.current_index + 1) % Len(st.images)]
             ld == load_current(moved, readable)
         IN IF ld.panic # NoPanic THEN ld
            ELSE [st |-> [ld.st EXCEPT !.zoom = One], panic |-> NoPanic]

\* Faulty variant: stepping back from index 0 stays at 0 (saturating_sub).
go_prev_Saturating(st, readable, overflowChecks) ==
    LET moved == [st EXCEPT !.current_index =
                               IF st.current_index >= 1
                               THEN st.current_index - 1 ELSE 0]
        ld == load_current(moved, readable)
    IN IF ld.panic # NoPanic THEN ld
       ELSE [st |-> [ld.st EXCEPT !.zoom = One], panic |-> NoPanic]

\* Faulty variant: stepping back from index 0 goes to index 1 when there is one
\* (the fallback is images.len() - 1 only for two images).
go_prev_WrapToSecond(st, readable, overflowChecks) ==
    LET moved == [st EXCEPT !.current_index =
                               IF st.current_index >= 1 THEN st.current_index - 1
                               ELSE IF Len(st.images) >= 2 THEN 1 ELSE 0]
        ld == load_current(moved, readable)
    IN IF ld.panic # NoPanic THEN ld
       ELSE [st |-> [ld.st EXCEPT !.zoom = One], panic |-> NoPanic]

\* unwrap_or's argument images.len() - 1 is evaluated first; on an empty list
\* it panics with overflow checks on and wraps to usize::MAX with them off.
go_prev(st, readable, overflowChecks) ==
    IF Len(st.images) = 0 /\ overflowChecks
    THEN [st |-> st, panic |-> "attempt to subtract with overflow"]
    ELSE LET last == IF Len(st.images) = 0 THEN UsizeMax ELSE Len(st.images) - 1
             moved == [st EXCEPT !.current_index =
                                    IF st.current_index >= 1
                                    THEN st.current_index - 1 ELSE last]
             ld == load_current(moved, readable)
         IN IF ld.panic # NoPanic THEN ld
            ELSE [st |-> [ld.st EXCEPT !.zoom = One], panic |-> NoPanic]

\* Faulty variant: zooming in also goes back to the first image's index.
zoom_in_ResetsIndex(st) ==
    [st EXCEPT !.zoom = F32Min(F32Add(st.zoom, ZoomStep), ZoomMax),
               !.current_index = 0]

\* Faulty variant: no upper cap.
zoom_in_NoCap(st) == [st EXCEPT !.zoom = F32Add(st.zoom, ZoomStep)]

zoom_in(st) == [st EXCEPT !.zoom = F32Min(F32Add(st.zoom, ZoomStep), ZoomMax)]

\* Faulty variant: the step also reverses the image list.
zoom_out_Reverses(st) ==
    [st EXCEPT !.zoom = F32Max(F32Sub(st.zoom, ZoomStep), ZoomMin),
               !.images = [i \in 1..Len(st.images) |->
                              st.images[Len(st.images) + 1 - i]]]

zoom_out(st) == [st EXCEPT !.zoom = F32Max(F32Sub(st.zoom, ZoomStep), ZoomMin)]

\* title(): (file of the current image, 1-based position, count).
title(st) == <<st.images[st.current_index + 1], st.current_index + 1, Len(st.images)>>

(***************************************************************************)
(* draw_image                                                              *)
(***************************************************************************)
\* Faulty variant: the larger of the two ratios is taken (fill, not fit).
Scale_Max(iw, ih, fw, fh, zoom) ==
    LET scale_x == F32Div(F32FromU32(fw), F32FromU32(iw))
        scale_y == F32Div(F32FromU32(fh), F32FromU32(ih))
    IN F32Mul(F32Max(scale_x, scale_y), zoom)

\* scale = min(fw / iw, fh / ih) * zoom
Scale(iw, ih, fw, fh, zoom) ==
    LET scale_x == F32Div(F32FromU32(fw), F32FromU32(iw))
        scale_y == F32Div(F32FromU32(fh), F32FromU32(ih))
        base_scale == F32Min(scale_x, scale_y)
    IN F32Mul(base_scale, zoom)

\* (n as f32 * scale) as u32
Scaled(n, scale) == F32ToU32(F32Mul(F32FromU32(n), scale))

\* i32 division, which truncates toward zero.
I32Div(a, b) == IF a >= 0 THEN a \div b ELSE 0 - ((0 - a) \div b)

\* Faulty variant: the offset is not floored at 0.
Offset_NoFloor(frameDim, scaledDim) == I32Div(frameDim - scaledDim, 2)

\* ((frame as i32 - scaled as i32) / 2).max(0) as u32
Offset(frameDim, scaledDim) ==
    LET half == I32Div(frameDim - scaledDim, 2)
    IN IF half > 0 THEN half ELSE 0

\* Faulty variant: every pixel samples the first column / row.
Source_First(i, scale, n) == 0

\* ((i as f32 / scale) as u32).min(n - 1); n - 1 on n = 0 wraps to u32::MAX
\* when overflow checks are off (with them on it panics: see DrawColumns).
Source(i, scale, n) ==
    LET s == F32ToU32(F32Div(F32FromU32(i), scale))
    IN IF n = 0 \/ s < n - 1 THEN s ELSE n - 1

\* Faulty variant: the buffer is not cleared.
Clear_KeepsStale(frame) == frame

\* Faulty variant: the background is written with alpha 0.
Clear_Transparent(frame) ==
    [i \in 1..Len(frame) |->
        IF i > 4 * (Len(frame) \div 4) THEN frame[i] ELSE 0]

\* for pixel in frame.chunks_exact_mut(4) { pixel.copy_from_slice(&[0, 0, 0, 255]) }
Clear(frame) ==
    [i \in 1..Len(frame) |->
        IF i > 4 * (Len(frame) \div 4) THEN frame[i]
        ELSE IF (i - 1) % 4 = 3 THEN 255 ELSE 0]

\* Faulty variant: the image pixel is averaged with the pixel under it.
CopyPixel_Blend(acc, img, dst, src, where) ==
    IF dst + 4 > Len(acc.frame) \/ src + 4 > Len(img)
    THEN [acc EXCEPT !.panic = "range end index out of range for slice"]
    ELSE [acc EXCEPT
            !.frame = [i \in 1..Len(acc.frame) |->
                          IF i > dst /\ i <= dst + 4
                          THEN (img[src + (i - dst)] + acc.frame[i]) \div 2
                          ELSE acc.frame[i]],
            !.writes = acc.writes \cup {where}]

\* frame[dst..dst + 4].copy_from_slice(&img[src..src + 4]) on the running
\* result acc = [frame, panic, writes]; a range past either slice panics.
CopyPixel(acc, img, dst, src, where) ==
    IF dst + 4 > Len(acc.frame) \/ src + 4 > Len(img)
    THEN [acc EXCEPT !.panic = "range end index out of range for slice"]
    ELSE [acc EXCEPT
            !.frame = [i \in 1..Len(acc.frame) |->
                          IF i > dst /\ i <= dst + 4 THEN img[src + (i - dst)]
                          ELSE acc.frame[i]],
            !.writes = acc.writes \cup {where}]

\* The loops over the scaled image: y stops at the first row below the frame,
\* x skips the columns right of it.
RECURSIVE DrawColumns(_, _, _, _, _, _, _)
DrawColumns(acc, img, dims, scale, off, y, x) ==
    IF x >= dims.scaled_width \/ acc.panic # NoPanic THEN acc
    ELSE LET frame_x == x + off[1]
             frame_y == y + off[2]
         IN IF frame_x >= dims.fw
            THEN DrawColumns(acc, img, dims, scale, off, y, x + 1)
            ELSE IF (dims.iw = 0 \/ dims.ih = 0) /\ dims.overflowChecks
            THEN [acc EXCEPT !.panic = "attempt to subtract with overflow"]
            ELSE LET src_x == Source(x, scale, dims.iw)
                     src_y == Source(y, scale, dims.ih)
                     src_index == (src_y * dims.iw + src_x) * 4
                     dst_index == (frame_y * dims.fw + frame_x) * 4
                     where == [frame_x |-> frame_x, frame_y |-> frame_y,
                               src_x |-> src_x, src_y |-> src_y, x |-> x, y |-> y]
                 IN DrawColumns(CopyPixel(acc, img, dst_index, src_index, where),
                                img, dims, scale, off, y, x + 1)

RECURSIVE DrawRows(_, _, _, _, _, _)
DrawRows(acc, img, dims, scale, off, y) ==
    IF y >= dims.scaled_height \/ acc.panic # NoPanic THEN acc
    ELSE IF y + off[2] >= dims.fh THEN acc
    ELSE DrawRows(DrawColumns(acc, img, dims, scale, off, y, 0),
                  img, dims, scale, off, y + 1)

\* draw_image(frame, img, img_width, img_height, frame_width, frame_height, zoom):
\* the frame it leaves, the panic if it panicked, and the copies it made.
draw_image(frame, img, iw, ih, fw, fh, zoom, overflowChecks) ==
    LET scale == Scale(iw, ih, fw, fh, zoom)
        scaled_width == Scaled(iw, scale)
        scaled_height == Scaled(ih, scale)
        offset_x == Offset(fw, scaled_width)
        offset_y == Offset(fh, scaled_height)
        dims == [iw |-> iw, ih |-> ih, fw |-> fw, fh |-> fh,
                 scaled_width |-> scaled_width, scaled_height |-> scaled_height,
                 overflowChecks |-> overflowChecks]
        cleared == [frame |-> Clear(frame), panic |-> NoPanic, writes |-> {}]
    IN DrawRows(cleared, img, dims, scale, <<offset_x, offset_y>>, 0)

\* The placement draw_image computes before its loops: the final scale, the
\* scaled extents and the centring offsets.
Layout(iw, ih, fw, fh, zoom) ==
    LET scale == Scale(iw, ih, fw, fh, zoom)
        scaled_width == Scaled(iw, scale)
        scaled_height == Scaled(ih, scale)
    IN [scale |-> scale,
        scaled_width |-> scaled_width,
        scaled_height |-> scaled_height,
        offset_x |-> Offset(fw, scaled_width),
        offset_y |-> Offset(fh, scaled_height)]

(***************************************************************************)
(* The program: main() and its event loop                                  *)
(***************************************************************************)
VARIABLES
    pc,                \* "start", "running", "exited" or "panicked"
    panic,             \* the panic message once pc = "panicked"
    picked,            \* what the file dialog returns: <<>> or <<file>>
    dir,               \* what read_dir returns: [ok, entries]
    state,             \* the AppState
    window_title,      \* the window title
    win,               \* window.inner_size(): <<width, height>>
    buf,               \* the size of the pixel buffer
    resized,           \* the Resized event not yet handled: <<>> or <<size>>
    redraw_requested,  \* request_redraw() called since the last redraw
    frame,             \* the pixel buffer, RGBA bytes
    writes             \* the pixel copies of the last draw_image call

vars == <<pc, panic, picked, dir, state, window_title, win, buf, resized,
          redraw_requested, frame, writes>>

Sizes == (0..MaxWidth) \X (0..MaxDim)

\* The folders: the files 1..n in whatever order read_dir lists them.
Listings ==
    UNION {{l \in [1..n -> 1..n] : \A i, j \in 1..n : l[i] = l[j] => i = j} :
               n \in 0..MaxFiles}

NoDir == [ok |-> FALSE, entries |-> <<>>]

Zeros(n) == [i \in 1..n |-> 0]

Init ==
    /\ pc = "start"
    /\ panic = NoPanic
    /\ picked \in {<<>>} \cup {<<p>> : p \in Universe}
    /\ dir \in {NoDir} \cup {[ok |-> TRUE, entries |-> l] : l \in Listings}
    /\ state = Unset
    /\ window_title = <<>>
    /\ win \in (1..MaxWidth) \X (1..MaxDim)
    /\ buf = <<0, 0>>
    /\ resized = <<>>
    /\ redraw_requested = FALSE
    /\ frame = <<>>
    /\ writes = {}

\* The builds a call can come from, by whether they check integer overflow.
\* draw_image consults the setting only where it computes img_width - 1 or
\* img_height - 1 on a zero dimension, so one build stands for both elsewhere.
Builds(iw, ih) == IF iw = 0 \/ ih = 0 THEN BOOLEAN ELSE {TRUE}

\* The process ends (how = "exited" or "panicked"): the window, the pixel
\* buffer and the pending events are gone (all but picked and dir); `st` is the AppState as the
\* panicking call left it (Unset on a plain exit).
Ends(how, msg, st) ==
    /\ pc' = how
    /\ panic' = msg
    /\ state' = st
    /\ window_title' = <<>>
    /\ win' = <<0, 0>>
    /\ buf' = <<0, 0>>
    /\ resized' = <<>>
    /\ redraw_requested' = FALSE
    /\ frame' = <<>>
    /\ writes' = {}

\* main() up to the event loop: AppState::new(), the window, Pixels::new.
Startup ==
    /\ pc = "start"
    /\ \E readable \in BOOLEAN :
         LET r == new(picked, dir.ok, dir.entries, readable) IN
         IF r.panic # NoPanic
         THEN Ends("panicked", r.panic, Unset) /\ UNCHANGED <<picked, dir>>
         ELSE IF ~r.some
         THEN Ends("exited", NoPanic, Unset) /\ UNCHANGED <<picked, dir>>
         ELSE /\ pc' = "running"
              /\ state' = r.st
              /\ window_title' = title(r.st)
              /\ buf' = win
              /\ frame' = Zeros(4 * win[1] * win[2])
              /\ picked' = <<>>
              /\ dir' = NoDir
              /\ UNCHANGED <<panic, win, resized, redraw_requested, writes>>

CloseRequested ==
    /\ pc = "running"
    /\ Ends("exited", NoPanic, Unset)
    /\ UNCHANGED <<picked, dir>>

KeyEscape ==
    /\ pc = "running"
    /\ Ends("exited", NoPanic, Unset)
    /\ UNCHANGED <<picked, dir>>

\* The user resizes or minimizes the window: the size changes at once and a
\* Resized event is queued (a newer one replacing one not yet handled).
WindowSizeChanged ==
    /\ pc = "running"
    /\ \E s \in Sizes \ {win} :
         /\ win' = s
         /\ resized' = <<s>>
    /\ UNCHANGED <<pc, panic, picked, dir, state, window_title, buf,
                   redraw_requested, frame, writes>>

\* Vec::resize_with(n, Default::default) on the pixel buffer.
ResizeBuffer(f, n) == [i \in 1..n |-> IF i <= Len(f) THEN f[i] ELSE 0]

\* WindowEvent::Resized(new_size).  pixels' resize_surface returns Err for a
\* zero width or height, and unwrap() then panics.
Resized ==
    /\ pc = "running"
    /\ resized # <<>>
    /\ LET new_size == resized[1] IN
       IF new_size[1] = 0 \/ new_size[2] = 0
       THEN /\ Ends("panicked", "called Result::unwrap() on an Err value", state)
            /\ UNCHANGED <<picked, dir>>
       ELSE /\ buf' = new_size
            /\ frame' = ResizeBuffer(frame, 4 * new_size[1] * new_size[2])
            /\ redraw_requested' = TRUE
            /\ resized' = <<>>
            /\ UNCHANGED <<pc, panic, picked, dir, state, window_title, win, writes>>

\* The outcome r = [st, panic] of a navigation method, then set_title and
\* request_redraw.
Navigated(r) ==
    IF r.panic # NoPanic
    THEN Ends("panicked", r.panic, r.st) /\ UNCHANGED <<picked, dir>>
    ELSE /\ state' = r.st
         /\ window_title' = title(r.st)
         /\ redraw_requested' = TRUE
         /\ UNCHANGED <<pc, panic, picked, dir, win, buf, resized, frame, writes>>

\* KeyCode::ArrowRight
KeyArrowRight ==
    /\ pc = "running"
    /\ \E readable \in BOOLEAN : Navigated(go_next(state, readable))

\* KeyCode::ArrowLeft
KeyArrowLeft ==
    /\ pc = "running"
    /\ \E readable, overflowChecks \in BOOLEAN :
         Navigated(go_prev(state, readable, overflowChecks))

\* A zoom method, then request_redraw.
Zoomed(st) ==
    /\ state' = st
    /\ redraw_requested' = TRUE
    /\ UNCHANGED <<pc, panic, picked, dir, window_title, win, buf, resized,
                   frame, writes>>

\* KeyCode::Equal | KeyCode::NumpadAdd
KeyEqual ==
    /\ pc = "running"
    /\ Zoomed(zoom_in(state))

\* KeyCode::Minus | KeyCode::NumpadSubtract
KeyMinus ==
    /\ pc = "running"
    /\ Zoomed(zoom_out(state))

\* The scroll amounts of a wheel notch (LineDelta's y, or PixelDelta's y * 0.01):
\* only the sign is read.
Scrolls == {-1, 0, 1}

MouseWheel ==
    /\ pc = "running"
    /\ \E scroll \in Scrolls :
         IF scroll > 0 THEN Zoomed(zoom_in(state)) ELSE Zoomed(zoom_out(state))

\* WindowEvent::RedrawRequested, which the OS may also send unasked:
\* draw_image on the frame at the window's current size, then render().
RedrawRequested ==
    /\ pc = "running"
    /\ \E overflowChecks \in Builds(state.img_width, state.img_height) :
         LET size == win
             d == draw_image(frame, state.img_data, state.img_width, state.img_height,
                             size[1], size[2], state.zoom, overflowChecks)
         IN IF d.panic # NoPanic
            THEN Ends("panicked", d.panic, state) /\ UNCHANGED <<picked, dir>>
            ELSE /\ frame' = d.frame
                 /\ writes' = d.writes
                 /\ redraw_requested' = FALSE
                 /\ UNCHANGED <<pc, panic, picked, dir, state, window_title, win,
                                buf, resized>>

AboutToWait ==
    /\ pc = "running"
    /\ redraw_requested' = TRUE
    /\ UNCHANGED <<pc, panic, picked, dir, state, window_title, win, buf, resized,
                   frame, writes>>

Next ==
    \/ Startup
    \/ CloseRequested
    \/ KeyEscape
    \/ WindowSizeChanged
    \/ Resized
    \/ KeyArrowRight
    \/ KeyArrowLeft
    \/ KeyEqual
    \/ KeyMinus
    \/ MouseWheel
    \/ RedrawRequested
    \/ AboutToWait

Spec == Init /\ [][Next]_vars

(***************************************************************************)
(* The methods of AppState called directly, on any AppState value (the     *)
(* struct literal admits an empty image list, which AppState::new never    *)
(* returns).                                                               *)
(***************************************************************************)
\* The image of position idx of `imgs`, loaded; nothing for an empty list.
Loaded(imgs, idx) ==
    IF imgs = <<>> THEN Unset
    ELSE LET ld == load_image(imgs[idx + 1], TRUE)
         IN [images |-> imgs, current_index |-> idx, zoom |-> One,
             img_data |-> ld.data, img_width |-> ld.w, img_height |-> ld.h]

\* The sorted image lists over the universe, the empty one included.
ImageLists == {Sort(FilterImages(l)) : l \in Listings}

AppStates ==
    UNION {{Loaded(imgs, idx) : idx \in 0..(IF imgs = <<>> THEN 0 ELSE Len(imgs) - 1)} :
               imgs \in ImageLists}

InitMethods ==
    /\ pc = "harness"
    /\ panic = NoPanic
    /\ picked = <<>>
    /\ dir = NoDir
    /\ state \in AppStates
    /\ window_title = <<>>
    /\ win = <<0, 0>>
    /\ buf = <<0, 0>>
    /\ resized = <<>>
    /\ redraw_requested = FALSE
    /\ frame = <<>>
    /\ writes = {}

\* The outcome r = [st, panic] of a method called on `state`.
Returned(r) ==
    /\ state' = r.st
    /\ panic' = r.panic
    /\ pc' = IF r.panic # NoPanic THEN "panicked" ELSE pc
    /\ UNCHANGED <<picked, dir, window_title, win, buf, resized, redraw_requested,
                   frame, writes>>

CallGoNext ==
    /\ pc = "harness"
    /\ \E readable \in BOOLEAN : Returned(go_next(state, readable))

CallGoPrev ==
    /\ pc = "harness"
    /\ \E readable, overflowChecks \in BOOLEAN :
         Returned(go_prev(state, readable, overflowChecks))

CallZoomIn ==
    /\ pc = "harness"
    /\ Returned([st |-> zoom_in(state), panic |-> NoPanic])

CallZoomOut ==
    /\ pc = "harness"
    /\ Returned([st |-> zoom_out(state), panic |-> NoPanic])

NextMethods ==
    \/ CallGoNext
    \/ CallGoPrev
    \/ CallZoomIn
    \/ CallZoomOut

SpecMethods == InitMethods /\ [][NextMethods]_vars

(***************************************************************************)
(* draw_image called directly: any image and frame size up to the bounds,  *)
(* a frame slice of the stated size or larger, holding stale bytes, and    *)
(* any zoom the zoom methods produce.                                      *)
(***************************************************************************)
ImgSizes == (0..MaxImg) \X (0..MaxImg)
FrameSizes == (0..MaxFrame) \X (0..MaxFrame)

Stale(n) == [i \in 1..n |-> 7]

InitDraw ==
    /\ pc = "harness"
    /\ panic = NoPanic
    /\ picked = <<>>
    /\ dir = NoDir
    /\ \E i \in ImgSizes :
         state = [Unset EXCEPT !.img_data = ImageData(9, i[1], i[2]),
                               !.img_width = i[1], !.img_height = i[2]]
    /\ window_title = <<>>
    /\ win \in FrameSizes
    /\ buf \in {win, <<MaxFrame, MaxFrame>>}
    /\ resized = <<>>
    /\ redraw_requested = FALSE
    /\ frame = Stale(4 * buf[1] * buf[2])
    /\ writes = {}

CallDrawImage ==
    /\ pc = "harness"
    /\ \E overflowChecks \in Builds(state.img_width, state.img_height) :
         LET d == draw_image(frame, state.img_data, state.img_width, state.img_height,
                             win[1], win[2], state.zoom, overflowChecks)
         IN /\ frame' = d.frame
            /\ writes' = d.writes
            /\ panic' = d.panic
            /\ pc' = IF d.panic # NoPanic THEN "panicked" ELSE "drawn"
    /\ UNCHANGED <<picked, dir, state, window_title, win, buf, resized,
                   redraw_requested>>

NextDraw ==
    \/ CallZoomIn
    \/ CallZoomOut
    \/ CallDrawImage

SpecDraw == InitDraw /\ [][NextDraw]_vars

(***************************************************************************)
(* Properties                                                              *)
(***************************************************************************)
\* The pixel buffer shows a pixel of file p at its top-left corner.
Shows(p) == Len(frame) >= 4 /\ frame[1] = p

\* C1: whenever the collection is non-empty, in particular in every state
\* reached from a successful AppState::new() by any sequence of events,
\* 0 <= current_index < len(images).
C1_IndexInRange ==
    Len(state.images) > 0 =>
        (0 <= state.current_index /\ state.current_index < Len(state.images))

\* C1's case: the last of three images is current, after the first one was
\* drawn.
C1_Witness ==
    /\ pc = "running"
    /\ Len(state.images) = 3
    /\ state.current_index = 2
    /\ Shows(state.images[1])

ZoomInRange(z) == z.k = "fin" /\ ~F32Lt(z, ZoomMin) /\ ~F32Lt(ZoomMax, z)

\* C2: in every reachable state 0.1 <= zoom <= 5.0; a zoom-in step at 5.0
\* leaves 5.0 and a zoom-out step at 0.1 leaves 0.1.
C2_ZoomInRange ==
    /\ ZoomInRange(state.zoom)
    /\ state.zoom = ZoomMax => zoom_in(state).zoom = ZoomMax
    /\ state.zoom = ZoomMin => zoom_out(state).zoom = ZoomMin

\* C2's case: zoom steps have brought the zoom to the cap.
C2_Witness ==
    /\ pc = "running"
    /\ state.zoom = ZoomMax
    /\ redraw_requested

\* C3: every navigation transition that completes (go_next, go_prev, the
\* initial load in AppState::new) leaves the zoom at exactly 1.0.
C3_NavigationResetsZoom ==
    [][((Startup \/ KeyArrowRight \/ KeyArrowLeft) /\ pc' = "running")
          => state'.zoom = One]_vars

\* C3's case: the frame was drawn from file 2 (which takes a zoom of 2.0 or
\* more in a 1 x 1 frame), another image is current now and the zoom is 1.0.
C3_Witness ==
    /\ pc = "running"
    /\ win = <<1, 1>> /\ buf = <<1, 1>>
    /\ Shows(2)
    /\ state.images[state.current_index + 1] # 2
    /\ state.zoom = One

\* C4: go_next sets the position to (p + 1) mod len and go_prev sets it to
\* (p - 1 + len) mod len.
C4_WrapAround ==
    [][/\ KeyArrowRight =>
            state'.current_index = (state.current_index + 1) % Len(state.images)
       /\ KeyArrowLeft =>
            state'.current_index =
                (state.current_index - 1 + Len(state.images)) % Len(state.images)]_vars

\* C4's case: the first of three images is current, after the last one was
\* drawn.
C4_Witness ==
    /\ pc = "running"
    /\ Len(state.images) = 3
    /\ state.current_index = 0
    /\ Shows(state.images[3])

\* C5: go_next followed by go_prev, and go_prev followed by go_next, returns
\* the position to its starting value: after a go_next step go_prev yields the
\* position before the step, and after a go_prev step go_next does.
C5_NextPrevInverse ==
    [][/\ (KeyArrowRight /\ pc' = "running") =>
            \A b \in BOOLEAN :
                go_prev(state', TRUE, b).st.current_index = state.current_index
       /\ (KeyArrowLeft /\ pc' = "running") =>
            go_next(state', TRUE).st.current_index = state.current_index]_vars

\* C5's case: the last of three images is current, after the second one was
\* drawn.
C5_Witness ==
    /\ pc = "running"
    /\ Len(state.images) = 3
    /\ state.current_index = 2
    /\ Shows(state.images[2])

\* C6: every pixel draw_image writes has 0 <= frame_x < frame_width and
\* 0 <= frame_y < frame_height, and every pixel it reads has
\* 0 <= src_x < img_width and 0 <= src_y < img_height.
C6_AccessesInBounds ==
    \A w \in writes :
        /\ 0 <= w.frame_x /\ w.frame_x < win[1]
        /\ 0 <= w.frame_y /\ w.frame_y < win[2]
        /\ 0 <= w.src_x /\ w.src_x < state.img_width
        /\ 0 <= w.src_y /\ w.src_y < state.img_height

\* C6's case: at zoom 5.0 the scaled image is wider and higher than the
\* 2 x 2 frame, and every frame pixel was written.
C6_Witness ==
    /\ pc = "drawn"
    /\ state.zoom = ZoomMax
    /\ win = <<2, 2>>
    /\ LET scale == Scale(state.img_width, state.img_height, 2, 2, state.zoom)
       IN Scaled(state.img_width, scale) > 2 /\ Scaled(state.img_height, scale) > 2
    /\ Cardinality(writes) = 4

Background(n) == [i \in 1..n |-> IF (i - 1) % 4 = 3 THEN 255 ELSE 0]

\* C7: when img_width, img_height, frame_width or frame_height is 0,
\* draw_image clears the buffer to the opaque background, writes no image
\* sample, and does not fail.
C7_DegenerateOnlyClears ==
    (/\ pc \in {"drawn", "panicked"}
     /\ (state.img_width = 0 \/ state.img_height = 0 \/ win[1] = 0 \/ win[2] = 0))
    => /\ pc = "drawn"
       /\ writes = {}
       /\ frame = Background(Len(frame))

\* C7's case: an image of width 0 and height 2 drawn at zoom 5.0 into a
\* 2 x 2 frame, where the loop over the rows does run.
C7_Witness ==
    /\ pc = "drawn"
    /\ state.img_width = 0 /\ state.img_height = 2
    /\ win = <<2, 2>> /\ buf = <<2, 2>>
    /\ state.zoom = ZoomMax

\* C8: a decode failure during go_next or go_prev is not fatal: the event
\* loop keeps running, the position is the new (wrapped) index, the zoom is
\* 1.0 and the decoded image keeps its previous value.
C8_DecodeFailureNotFatal ==
    [][(pc = "running" /\ panic' = "Failed to open image")
          => /\ pc' = "running"
             /\ state'.current_index \in
                    {(state.current_index + 1) % Len(state.images),
                     (state.current_index - 1 + Len(state.images)) % Len(state.images)}
             /\ state'.zoom = One
             /\ state'.img_data = state.img_data
             /\ state'.img_width = state.img_width
             /\ state'.img_height = state.img_height]_vars

\* C9: the event loop never runs on an empty image list: when the filter
\* yields no image or the directory listing fails, AppState::new returns None,
\* main exits and no AppState exists.
C9_NeverActiveWhenEmpty ==
    [][/\ pc' = "running" => Len(state'.images) > 0
       /\ (Startup /\ (~dir.ok \/ FilterImages(dir.entries) = <<>>))
            => (pc' = "exited" /\ state' = Unset)]_vars

\* C9's case: a file was picked in a folder that holds a file but no image,
\* and the program has exited.
C9_Witness ==
    /\ pc = "exited"
    /\ picked # <<>>
    /\ dir.ok
    /\ dir.entries # <<>>
    /\ FilterImages(dir.entries) = <<>>

HoldsDecodeOf(st, p) ==
    /\ st.img_data = ImageData(p, DecodedWidth(p), DecodedHeight(p))
    /\ st.img_width = DecodedWidth(p)
    /\ st.img_height = DecodedHeight(p)

\* C11: after a successful load (AppState::new returning Some), the position
\* is the index of the picked file in the sorted collection when the file is
\* in the collection and 0 otherwise, the zoom is 1.0 and the decoded image
\* is the one at that position.
C11_InitialPosition ==
    [][(Startup /\ pc' = "running") =>
        LET imgs == state'.images
            idx == state'.current_index
        IN /\ \A i, j \in 1..Len(imgs) : i < j => PathLess(imgs[i], imgs[j])
           /\ \A p \in Universe :
                (\E i \in 1..Len(imgs) : imgs[i] = p)
                    <=> (IsImage(p) /\ \E i \in 1..Len(dir.entries) : dir.entries[i] = p)
           /\ idx \in 0..(Len(imgs) - 1)
           /\ IF \E i \in 1..Len(imgs) : imgs[i] = picked[1]
              THEN imgs[idx + 1] = picked[1]
              ELSE idx = 0
           /\ state'.zoom = One
           /\ HoldsDecodeOf(state', imgs[idx + 1])]_vars

\* C11's case: the program has just started on the third of three images (the
\* picked one): nothing was requested or drawn yet.
C11_Witness ==
    /\ pc = "running"
    /\ Len(state.images) = 3
    /\ state.current_index = 2
    /\ ~redraw_requested
    /\ resized = <<>>
    /\ frame = Zeros(4)


\* clamp(z * (tenths / 10), 0.1, 5.0) in f32.
Multiplied(z, tenths) ==
    LET m == F32Div(F32FromU32(tenths), F32FromU32(10))
    IN F32Max(F32Min(F32Mul(z, m), ZoomMax), ZoomMin)

\* C12: a relative zoom step is multiplicative: a zoom-in notch (key press or
\* wheel tick) sets zoom to clamp(zoom * 1.1, 0.1, 5.0) and a zoom-out notch
\* to clamp(zoom * 0.9, 0.1, 5.0).
C12_MultiplicativeZoom ==
    [][/\ KeyEqual => state'.zoom = Multiplied(state.zoom, 11)
       /\ KeyMinus => state'.zoom = Multiplied(state.zoom, 9)]_vars


\* C13: after every completed navigation transition (initial load, go_next,
\* go_prev) the resident decoded image (img_data, img_width, img_height) is
\* the decode of images[current_index]; no state between events holds the
\* image of another index.
C13_ResidentImageIsCurrent ==
    pc = "running" => HoldsDecodeOf(state, state.images[state.current_index + 1])

\* C13's case: the second of three images is current and not yet drawn, after
\* the third one was drawn.
C13_Witness ==
    /\ pc = "running"
    /\ Len(state.images) = 3
    /\ state.current_index = 1
    /\ Shows(state.images[3])
    /\ redraw_requested
    /\ state.zoom = One


\* Pixel k (row-major in the frame as drawn, from 0) of the buffer f.
PixelAt(f, k) == <<f[4 * k + 1], f[4 * k + 2], f[4 * k + 3], f[4 * k + 4]>>

\* The last draw_image call copied an image pixel to buffer pixel k.
Written(k) == \E w \in writes : w.frame_y * win[1] + w.frame_x = k

\* Buffers of n bytes with other contents than the one drawn on.
Priors(n) == {Zeros(n), [i \in 1..n |-> (37 * i) % 256]}

\* C14: after draw_image returns, every destination pixel it did not write an
\* image pixel to holds the opaque black background (0,0,0,255), whatever the
\* buffer held before the call: the resulting buffer depends only on the
\* image, the frame dimensions and the zoom.
C14_NoStaleData ==
    pc = "drawn" =>
        /\ \A k \in 0..((Len(frame) \div 4) - 1) :
               ~Written(k) => PixelAt(frame, k) = <<0, 0, 0, 255>>
        /\ \A prior \in Priors(Len(frame)) :
           \A overflowChecks \in Builds(state.img_width, state.img_height) :
               LET d == draw_image(prior, state.img_data, state.img_width,
                                   state.img_height, win[1], win[2], state.zoom,
                                   overflowChecks)
               IN d.panic = NoPanic /\ d.frame = frame

\* C14's case: a 1 x 1 image drawn in the middle of a 3 x 1 frame that held
\* stale bytes: the pixels left and right of it are background.
C14_Witness ==
    /\ pc = "drawn"
    /\ win = <<3, 1>> /\ buf = <<3, 1>>
    /\ writes # {}
    /\ \A w \in writes : w.frame_x = 1
    /\ PixelAt(frame, 0) = <<0, 0, 0, 255>>
    /\ PixelAt(frame, 2) = <<0, 0, 0, 255>>


\* The placement of the image of the current state in the frame `win`.
CurrentLayout ==
    Layout(state.img_width, state.img_height, win[1], win[2], state.zoom)

\* n = trunc(p) for a finite f32 p >= 0: n <= p < n + 1.
IsTruncationOf(n, p) ==
    /\ p.k = "fin"
    /\ ~F32Lt(p, F32FromU32(n))
    /\ F32Lt(p, F32FromU32(n + 1))

\* max(0, (frameDim - scaledDim) / 2)
Centred(frameDim, scaledDim) ==
    IF scaledDim >= frameDim THEN 0 ELSE (frameDim - scaledDim) \div 2

\* C15: draw_image computes base_scale = min(fw/iw, fh/ih), the scaled extents
\* by truncation of iw * scale and ih * scale, and the offsets
\* max(0, (fw - scaled_w) / 2) and max(0, (fh - scaled_h) / 2), so that a scaled
\* extent larger than the frame gives offset 0; for iw = 100, ih = 50,
\* fw = fh = 400 and zoom 1.0 this gives scaled_w = 400, scaled_h = 200,
\* offset_x = 0, offset_y = 100.
C15_FitAndCentre ==
    /\ Layout(100, 50, 400, 400, One) =
           [scale |-> F32FromU32(4), scaled_width |-> 400, scaled_height |-> 200,
            offset_x |-> 0, offset_y |-> 100]
    /\ pc = "drawn" =>
        LET l == CurrentLayout
            iw == state.img_width
            ih == state.img_height
            fw == win[1]
            fh == win[2]
        IN /\ (iw > 0 /\ ih > 0) =>
                /\ l.scale = F32Mul(IF fw * ih <= fh * iw
                                    THEN F32Div(F32FromU32(fw), F32FromU32(iw))
                                    ELSE F32Div(F32FromU32(fh), F32FromU32(ih)),
                                    state.zoom)
                /\ IsTruncationOf(l.scaled_width, F32Mul(F32FromU32(iw), l.scale))
                /\ IsTruncationOf(l.scaled_height, F32Mul(F32FromU32(ih), l.scale))
           /\ l.offset_x = Centred(fw, l.scaled_width)
           /\ l.offset_y = Centred(fh, l.scaled_height)
           /\ l.scaled_width > fw => l.offset_x = 0
           /\ l.scaled_height > fh => l.offset_y = 0
           /\ \A w \in writes :
                /\ w.x < l.scaled_width /\ w.frame_x = w.x + l.offset_x
                /\ w.y < l.scaled_height /\ w.frame_y = w.y + l.offset_y

\* C15's case: a 2 x 1 image at a zoom of 2.0 or more in a 1 x 3 frame: it is
\* wider than the frame (offset_x = 0) and centred vertically (offset_y = 1).
C15_Witness ==
    /\ pc = "drawn"
    /\ state.img_width = 2 /\ state.img_height = 1
    /\ win = <<1, 3>>
    /\ CurrentLayout.scaled_width > 1
    /\ CurrentLayout.offset_x = 0
    /\ CurrentLayout.offset_y = 1
    /\ writes # {}


\* C16 as stated: when the final scale is exactly 1.0, after draw_image every
\* destination pixel (x, y) equals source pixel (x, y) byte for byte.
C16_IdentityAtScaleOne ==
    (pc = "drawn" /\ CurrentLayout.scale = One) =>
        \A x \in 0..(state.img_width - 1), y \in 0..(state.img_height - 1) :
            (x < win[1] /\ y < win[2]) =>
                PixelAt(frame, y * win[1] + x)
                    = PixelAt(state.img_data, y * state.img_width + x)

\* C16, amended: when the final scale is exactly 1.0, after draw_image every
\* destination pixel (x + offset_x, y + offset_y) inside the frame equals
\* source pixel (x, y) byte for byte; with iw = fw and ih = fh the offsets are
\* 0 and the frame is the image.
C16_ShiftedIdentityAtScaleOne ==
    (pc = "drawn" /\ CurrentLayout.scale = One) =>
        LET l == CurrentLayout IN
        /\ \A x \in 0..(state.img_width - 1), y \in 0..(state.img_height - 1) :
             (x + l.offset_x < win[1] /\ y + l.offset_y < win[2]) =>
                 PixelAt(frame, (y + l.offset_y) * win[1] + (x + l.offset_x))
                     = PixelAt(state.img_data, y * state.img_width + x)
        /\ (state.img_width = win[1] /\ state.img_height = win[2]) =>
             /\ l.offset_x = 0 /\ l.offset_y = 0
             /\ SubSeq(frame, 1, Len(state.img_data)) = state.img_data

\* C16's case: a 1 x 1 image at scale 1.0 in a 1 x 3 frame, drawn one row
\* down.
C16_Witness ==
    /\ pc = "drawn"
    /\ CurrentLayout.scale = One
    /\ state.img_width = 1 /\ state.img_height = 1
    /\ win = <<1, 3>>
    /\ CurrentLayout.offset_y = 1
    /\ PixelAt(frame, 1) = PixelAt(state.img_data, 0)


\* C17: once established by AppState::new, the image collection (its elements
\* and their order) is never changed by a later event: go_next, go_prev,
\* zoom_in, zoom_out, resize and redraw leave images unchanged, for as long as
\* the AppState exists.
C17_ImagesImmutable ==
    [][(pc = "running" /\ pc' # "exited") => state'.images = state.images]_vars

\* C17's case: after navigation to the second of three images, zooming out to
\* the floor and a redraw.
C17_Witness ==
    /\ pc = "running"
    /\ Len(state.images) = 3
    /\ state.current_index = 1
    /\ state.zoom = ZoomMin
    /\ ~redraw_requested
    /\ PixelAt(frame, 0) = <<0, 0, 0, 255>>


\* s = min(floor(i / scale), n - 1), the division being the f32 one.  For a
\* pixel of the scaled image the quotient q is at most n.
IsSampleOf(s, i, scale, n) ==
    \E q \in 0..n :
        /\ IsTruncationOf(q, F32Div(F32FromU32(i), scale))
        /\ s = IF q < n - 1 THEN q ELSE n - 1

\* C18: for every (x, y) with 0 <= x < scaled_w and 0 <= y < scaled_h whose
\* destination (x + offset_x, y + offset_y) is inside the frame, draw_image
\* writes there exactly the 4 bytes of the source pixel at
\* (min(floor(x / scale), iw - 1), min(floor(y / scale), ih - 1)), unblended.
C18_NearestNeighbourCopy ==
    pc = "drawn" =>
        LET l == CurrentLayout IN
        /\ \A x \in 0..(l.scaled_width - 1), y \in 0..(l.scaled_height - 1) :
             (x + l.offset_x < win[1] /\ y + l.offset_y < win[2]) =>
                 \E w \in writes : w.x = x /\ w.y = y
        /\ \A w \in writes :
             /\ w.frame_x = w.x + l.offset_x
             /\ w.frame_y = w.y + l.offset_y
             /\ IsSampleOf(w.src_x, w.x, l.scale, state.img_width)
             /\ IsSampleOf(w.src_y, w.y, l.scale, state.img_height)
             /\ PixelAt(frame, w.frame_y * win[1] + w.frame_x)
                    = PixelAt(state.img_data, w.src_y * state.img_width + w.src_x)

\* C18's case: a 2 x 2 image enlarged by 1.5 into a 3 x 3 frame: column 2
\* samples source column 1.
C18_Witness ==
    /\ pc = "drawn"
    /\ state.img_width = 2 /\ state.img_height = 2
    /\ win = <<3, 3>>
    /\ state.zoom = One
    /\ Cardinality(writes) = 9
    /\ \E w \in writes : w.x = 2 /\ w.src_x = 1 /\ w.y = 1 /\ w.src_y = 0


\* C20: at every RedrawRequested, for any interleaving of window size changes,
\* Resized events and redraws, the frame_width and frame_height passed to
\* draw_image (window.inner_size()) are the dimensions of the pixel buffer
\* being written, so that frame.len() = frame_width * frame_height * 4.
C20_FrameMatchesBuffer ==
    [][RedrawRequested => (win = buf /\ Len(frame) = 4 * win[1] * win[2])]_vars


\* What draw_image leaves in a buffer of n bytes for the image and zoom of
\* the AppState st and the frame size `size`.
Composite(n, st, size) ==
    draw_image(Zeros(n), st.img_data, st.img_width, st.img_height,
               size[1], size[2], st.zoom, TRUE).frame

\* Nothing is waiting to be displayed: no redraw is requested, no Resized
\* event is pending, and the buffer has been drawn on.
Settled == ~redraw_requested /\ resized = <<>> /\ frame # Zeros(Len(frame))

\* The buffer shows the current image at the current zoom and window size.
UpToDate == frame = Composite(Len(frame), state, win)

\* C19: every event that changes navigation state, zoom or the frame
\* dimensions (next, previous, zoom-in, zoom-out, wheel, resize) requests a
\* redraw in the same handler, and a RedrawRequested composites with the
\* current image, zoom and window size: once the redraw is delivered, no
\* state change is left undisplayed.
C19_ChangesAreRedrawn ==
    /\ [][/\ (pc' = "running" /\ ~redraw_requested') =>
                 ~(KeyArrowRight \/ KeyArrowLeft \/ KeyEqual \/ KeyMinus
                     \/ MouseWheel \/ Resized)
          /\ RedrawRequested =>
                 /\ pc' = "running"
                 /\ state' = state /\ win' = win
                 /\ frame' = Composite(Len(frame'), state', win')]_vars
    /\ []((pc = "running" /\ Settled) => UpToDate)

\* The same for the redraws that return: what holds of C19 apart from the
\* redraw that panics on a buffer smaller than the window (C20).
C19_CompletedRedrawsDisplay ==
    /\ [][/\ (pc' = "running" /\ ~redraw_requested') =>
                 ~(KeyArrowRight \/ KeyArrowLeft \/ KeyEqual \/ KeyMinus
                     \/ MouseWheel \/ Resized)
          /\ (pc' = "running" /\ ~redraw_requested' /\ RedrawRequested) =>
                 /\ state' = state /\ win' = win
                 /\ frame' = Composite(Len(frame'), state', win')]_vars
    /\ []((pc = "running" /\ Settled) => UpToDate)


\* The position and the decoded image are the same before and after the step.
SameImage ==
    /\ state'.current_index = state.current_index
    /\ state'.img_data = state.img_data
    /\ state'.img_width = state.img_width
    /\ state'.img_height = state.img_height

\* A redraw step; every redraw leaves no redraw requested, which is tested
\* first.
Redrawn == ~redraw_requested' /\ RedrawRequested

\* A zoom step by key or wheel; every zoom step leaves the title alone, which
\* is tested first.
ZoomStepped ==
    /\ window_title' = window_title
    /\ KeyEqual \/ KeyMinus \/ MouseWheel

\* C21: zoom_in, zoom_out (by key or wheel), a resize event and a redraw
\* leave current_index and the decoded image (img_data, img_width,
\* img_height) unchanged; resize and redraw also leave zoom unchanged.
C21_ZoomResizeRedrawFrame ==
    [][/\ ~SameImage =>
             ~(Resized \/ Redrawn \/ ZoomStepped)
       /\ state'.zoom # state.zoom => ~(Resized \/ Redrawn)]_vars

\* C21's case: the second of three images at the zoom floor, drawn in a
\* 1 x 1 buffer that a Resized event has then widened to 2 x 1.
C21_Witness ==
    /\ pc = "running"
    /\ Len(state.images) = 3
    /\ state.current_index = 1
    /\ HoldsDecodeOf(state, state.images[2])
    /\ state.zoom = ZoomMin
    /\ buf = <<2, 1>>
    /\ PixelAt(frame, 0) = <<0, 0, 0, 255>>
    /\ PixelAt(frame, 1) = <<0, 0, 0, 0>>

====
